---- MODULE Spec2Model ----
(***************************************************************************)
(* Model of the KFP step executor (src/step.py): execute_step with its     *)
(* wait loop, output normalisation and the guarded artifact writer         *)
(* _write_output / _is_safe_path.                                          *)
(*                                                                         *)
(* Strings that are used as paths or keys are modelled by their split on   *)
(* "/" (Python's s.split("/")): "" is <<"">>, "/tmp" is <<"", "tmp">>,     *)
(* "../x" is <<"..", "x">>, "/" is <<"", "">>.  Equality of two such       *)
(* sequences is equality of the strings.                                   *)
(***************************************************************************)
EXTENDS Integers, Sequences, FiniteSets, TLC

VARIABLES
    pc,             \* position of the process inside execute_step
    args,           \* the arguments execute_step was called with
    function,       \* local variable `function`
    workflow,       \* local variable `workflow`
    action,         \* local variable `action`
    run,            \* local variable `run` (NoRun before it is bound)
    observed,       \* the run states read so far, oldest first
    sleeps,         \* number of time.sleep(5) calls made
    outputs,        \* what run.outputs() returned (a list of pairs)
    outputsCalled,  \* whether run.outputs() was called
    results,        \* local dict `results`, in insertion order
    idx,            \* position of the loop over results.items()
    attempts,       \* calls of _write_output made so far, oldest first
    warnings,       \* number of LOGGER.warning lines
    fs,             \* the file system: files with content, directories
    fs0,            \* the file system when the process started
    exitCode,       \* exit status of the process, -1 while it runs
    raised,         \* the uncaught exception that ended the process
    wcall           \* SpecWrite only: the last direct call of _write_output

vars == <<pc, args, function, workflow, action, run, observed, sleeps,
          outputs, outputsCalled, results, idx, attempts, warnings,
          fs, fs0, exitCode, raised, wcall>>

stepVars == <<pc, args, function, workflow, action, run, observed, sleeps,
              outputs, outputsCalled, results, idx, attempts, warnings,
              exitCode, raised>>

----------------------------------------------------------------------------
(* Bounds *)

MaxKeyLen == 2      \* segments of a key handed to _write_output directly
MaxObserved == 3    \* run states the driver reads before the model stops
MaxOutputs == 1     \* entries of the mapping run.outputs() returns

----------------------------------------------------------------------------
(* Paths: posixpath.join, normpath, abspath, commonpath *)

KFP_ARTIFACTS_DIR == <<"", "tmp">>

Cwd == <<"", "">>

isabs(p) == Len(p) >= 2 /\ p[1] = ""

endsWithSep(p) == Len(p) >= 2 /\ p[Len(p)] = ""

\* a + b on strings given by their split on "/"
concat(a, b) ==
    SubSeq(a, 1, Len(a) - 1) \o <<a[Len(a)] \o b[1]>> \o Tail(b)

join(a, b) ==
    IF isabs(b) THEN b
    ELSE IF a = <<"">> \/ endsWithSep(a) THEN concat(a, b)
    ELSE a \o b

initial_slashes(p) ==
    IF ~isabs(p) THEN 0
    ELSE IF Len(p) >= 3 /\ p[2] = "" /\ ~(Len(p) >= 4 /\ p[3] = "") THEN 2
    ELSE 1

RECURSIVE new_comps(_, _, _)
new_comps(comps, acc, slashes) ==
    IF comps = <<>> THEN acc
    ELSE LET comp == Head(comps)
             rest == Tail(comps)
         IN  IF comp \in {"", "."} THEN new_comps(rest, acc, slashes)
             ELSE IF \/ comp # ".."
                     \/ (slashes = 0 /\ acc = <<>>)
                     \/ (acc # <<>> /\ acc[Len(acc)] = "..")
                  THEN new_comps(rest, Append(acc, comp), slashes)
             ELSE IF acc # <<>>
                  THEN new_comps(rest, SubSeq(acc, 1, Len(acc) - 1), slashes)
             ELSE new_comps(rest, acc, slashes)

normpath(p) ==
    LET slashes == initial_slashes(p)
        comps == new_comps(p, <<>>, slashes)
    IN  IF slashes = 0 THEN (IF comps = <<>> THEN <<".">> ELSE comps)
        ELSE IF comps = <<>> THEN [i \in 1..(slashes + 1) |-> ""]
        ELSE [i \in 1..slashes |-> ""] \o comps

abspath(p) == normpath(IF isabs(p) THEN p ELSE join(Cwd, p))

\* the components commonpath compares: c for c in s.split("/") if c and c != "."
RECURSIVE split_path(_)
split_path(p) ==
    IF p = <<>> THEN <<>>
    ELSE IF Head(p) \in {"", "."} THEN split_path(Tail(p))
    ELSE <<Head(p)>> \o split_path(Tail(p))

RECURSIVE common_prefix(_, _)
common_prefix(s1, s2) ==
    IF s1 = <<>> \/ s2 = <<>> \/ Head(s1) # Head(s2) THEN <<>>
    ELSE <<Head(s1)>> \o common_prefix(Tail(s1), Tail(s2))

\* both arguments are absolute here, so the result is "/" + "/".join(common)
commonpath(p1, p2) ==
    LET common == common_prefix(split_path(p1), split_path(p2))
    IN  IF common = <<>> THEN <<"", "">> ELSE <<"">> \o common

\* _is_safe_path with is_symlink=False, the only way it is called
_is_safe_path(base, filepath) ==
    LET resolved_filepath == abspath(filepath)
    IN  base = commonpath(base, resolved_filepath)

----------------------------------------------------------------------------
(* File system: files are named by the components of their absolute path *)

FileId(path) == split_path(path)

IsFile(f, id) == \E e \in f.files : e.path = id

Content(f, id) == (CHOOSE e \in f.files : e.path = id).data

Parent(id) == SubSeq(id, 1, Len(id) - 1)

\* the file id holds exactly data afterwards (created or replaced)
SetFile(f, id, data) ==
    [f EXCEPT !.files = {e \in @ : e.path # id} \cup {[path |-> id, data |-> data]}]

Injected == {"none", "open", "write", "stat"}   \* the call that raises OSError

\* open(path, "w"), fp.write(value), close, os.stat(path)
\* io names the call on which the operating system reports an error.  A file
\* whose write fails after the truncating open is left empty.
write_file(f, path, value, io) ==
    LET id == FileId(path)
    IN  IF id \in f.dirs
        THEN [fs |-> f, exc |-> "IsADirectoryError"]
        ELSE IF Parent(id) \notin f.dirs
        THEN [fs |-> f, exc |-> IF IsFile(f, Parent(id)) THEN "NotADirectoryError"
                                 ELSE "FileNotFoundError"]
        ELSE IF io = "open"
        THEN [fs |-> f, exc |-> "OSError"]
        ELSE IF io = "write"
        THEN [fs |-> SetFile(f, id, ""), exc |-> "OSError"]
        ELSE IF io = "stat"
        THEN [fs |-> SetFile(f, id, value), exc |-> "OSError"]
        ELSE [fs |-> SetFile(f, id, value), exc |-> "none"]

\* the file is opened for appending and a line terminator is written
_write_output_append(f, key, value, io) ==
    LET path == join(KFP_ARTIFACTS_DIR, key)
        id == FileId(abspath(path))
        old == IF IsFile(f, id) THEN Content(f, id) ELSE ""
    IN  IF ~_is_safe_path(KFP_ARTIFACTS_DIR, path)
        THEN [fs |-> f, outcome |-> "rejected", exc |-> "none", warned |-> 1]
        ELSE LET w == write_file(f, abspath(path), old \o value \o "\n", io)
             IN  [fs |-> w.fs,
                  outcome |-> IF w.exc = "none" THEN "written" ELSE "raised",
                  exc |-> w.exc, warned |-> 0]

\* _write_output(key, value) on file system f: the file system afterwards,
\* how the call ended (rejected by the guard / written / raised exc) and the
\* number of warnings it logged itself
_write_output(f, key, value, io) ==
    LET path == join(KFP_ARTIFACTS_DIR, key)
    IN  IF ~_is_safe_path(KFP_ARTIFACTS_DIR, path)
        THEN [fs |-> f, outcome |-> "rejected", exc |-> "none", warned |-> 1]
        ELSE LET w == write_file(f, abspath(path), value, io)
             IN  [fs |-> w.fs,
                  outcome |-> IF w.exc = "none" THEN "written" ELSE "raised",
                  exc |-> w.exc, warned |-> 0]

----------------------------------------------------------------------------
(* Values of the program *)

None == [kind |-> "none"]

Str(s) == [kind |-> "str", name |-> s]

EntityRef(etype, name, id) == [kind |-> "entity", etype |-> etype, name |-> name, id |-> id]

NoRun == [id |-> "", state |-> "", entity |-> None, action |-> None]

NoCall == [key |-> <<>>, value |-> "", io |-> "none", before |-> [files |-> {}, dirs |-> {}],
           outcome |-> "none", exc |-> "none"]

RUN_ID == <<"run_id">>

Dirs == {<<>>, <<"tmp">>}

TmpFile(name, data) == [path |-> <<"tmp", name>>, data |-> data]

\* what the output directory may hold when the process starts
InitialFs ==
    { [files |-> {}, dirs |-> Dirs],
      [files |-> {TmpFile("run_id", "old"), TmpFile("entity_x", "old")}, dirs |-> Dirs] }

\* the same for the direct calls, where the key may also name a directory
InitialFsWrite ==
    InitialFs \cup
    { [files |-> {TmpFile("x", "old")}, dirs |-> Dirs],
      [files |-> {}, dirs |-> Dirs \cup {<<"tmp", "x">>}] }

----------------------------------------------------------------------------
(* SpecWrite: _write_output called directly with any key and value *)

Segments == {"", ".", "..", "tmp", "x"}

Keys == UNION { [1..n -> Segments] : n \in 1..MaxKeyLen }

Values == {"v1", "v2"}

InitWrite ==
    /\ pc = "first"
    /\ args = [function |-> None, function_id |-> None, workflow |-> None,
               workflow_id |-> None, action |-> None]
    /\ function = None
    /\ workflow = None
    /\ action = None
    /\ run = NoRun
    /\ observed = <<>>
    /\ sleeps = 0
    /\ outputs = <<>>
    /\ outputsCalled = FALSE
    /\ results = <<>>
    /\ idx = 1
    /\ attempts = <<>>
    /\ warnings = 0
    /\ fs \in InitialFsWrite
    /\ fs0 = fs
    /\ exitCode = -1
    /\ raised = "none"
    /\ wcall = NoCall

Call(key, value, io) ==
    LET r == _write_output(fs, key, value, io)
    IN  /\ fs' = r.fs
        /\ wcall' = [key |-> key, value |-> value, io |-> io, before |-> fs,
                     outcome |-> r.outcome, exc |-> r.exc]

\* write(k, v1) on the initial directory
FirstWrite ==
    /\ pc = "first"
    /\ \E key \in Keys, value \in Values, io \in Injected : Call(key, value, io)
    /\ pc' = "second"
    /\ UNCHANGED <<args, function, workflow, action, run, observed, sleeps,
                   outputs, outputsCalled, results, idx, attempts, warnings,
                   fs0, exitCode, raised>>

\* then write(k, v2) with the same key
SecondWrite ==
    /\ pc = "second"
    /\ \E value \in Values, io \in Injected : Call(wcall.key, value, io)
    /\ pc' = "written"
    /\ UNCHANGED <<args, function, workflow, action, run, observed, sleeps,
                   outputs, outputsCalled, results, idx, attempts, warnings,
                   fs0, exitCode, raised>>

NextWrite == FirstWrite \/ SecondWrite

SpecWrite == InitWrite /\ [][NextWrite]_vars

----------------------------------------------------------------------------
(* execute_step *)

COMPLETED == "COMPLETED"
ERROR == "ERROR"
STOPPED == "STOPPED"
RUNNING == "RUNNING"
PENDING == "PENDING"

\* the values run.status.state takes in the model
States == {PENDING, RUNNING, COMPLETED, ERROR, STOPPED}

RunIds == {"r1"}

\* STOPPED is missing from the tuple
_is_finished_without_stopped(state) == state \in {COMPLETED, ERROR}

_is_finished(state) == state \in {COMPLETED, ERROR, STOPPED}

\* everything but ERROR counts as complete
_is_complete_unless_error(state) == state # ERROR

_is_complete(state) == state = COMPLETED

\* main() passes dicts for inputs, outputs and parameters; jsonprops and the
\* three dicts only fill exec_kwargs, which is handed to the SDK unread.
ArgSets ==
    { [function |-> f, function_id |-> fid, workflow |-> w, workflow_id |-> wid,
       action |-> a] :
        f \in {None, Str("f")}, fid \in {None, Str("fid")},
        w \in {None, Str("w")}, wid \in {None, Str("wid")},
        a \in {None, Str("job")} }

\* the calls the model follows: an id comes with its name, and a workflow id
\* only when the workflow is the entity to run
Calls ==
    { a \in ArgSets :
        /\ a.function = None => a.function_id = None
        /\ a.workflow = None \/ a.function # None => a.workflow_id = None }

\* output property names, split on "/": "x", "/../run_id", "/../../x"
Props == { <<"x">>, <<"", "..", "run_id">>, <<"", "..", "..", "x">> }

StrVal == [shape |-> "str", text |-> "s"]
EntityVal == [shape |-> "Entity", text |-> "ent://x"]
DictVal == [shape |-> "dict", text |-> "k3"]
DictNoKey == [shape |-> "dict_without_key", text |-> ""]
IntVal == [shape |-> "int", text |-> "42"]

OutputVals == {StrVal, EntityVal, DictVal, DictNoKey, IntVal}

\* the mappings run.outputs() may return, as lists of items in dict order
OutputMaps ==
    UNION { { o \in [1..n -> [prop : Props, val : OutputVals]] :
                \A i, j \in 1..n : o[i].prop = o[j].prop => i = j } :
            n \in 0..MaxOutputs }

\* f"entity_{prop}"
target_output(prop) == <<"entity_" \o prop[1]>> \o Tail(prop)

\* val if isinstance(val, str) else val.key if isinstance(val, Entity) else val["key"]
convert(val) ==
    IF val.shape = "str" THEN [exc |-> "none", text |-> val.text]
    ELSE IF val.shape = "Entity" THEN [exc |-> "none", text |-> val.text]
    ELSE IF val.shape = "dict" THEN [exc |-> "none", text |-> val.text]
    ELSE IF val.shape = "dict_without_key" THEN [exc |-> "KeyError", text |-> ""]
    ELSE [exc |-> "TypeError", text |-> ""]

\* the loop over run.outputs().items() that fills results
RECURSIVE process_entities(_, _)
process_entities(items, acc) ==
    IF items = <<>> THEN [exc |-> "none", results |-> acc]
    ELSE LET c == convert(Head(items).val)
         IN  IF c.exc # "none" THEN [exc |-> c.exc, results |-> acc]
             ELSE process_entities(Tail(items),
                      Append(acc, [key |-> target_output(Head(items).prop),
                                   value |-> c.text]))

\* the classes `except Exception` catches
IsException(exc) ==
    exc \in {"OSError", "IsADirectoryError", "FileNotFoundError", "NotADirectoryError",
             "KeyError", "TypeError", "AttributeError"}

\* the try block has no except clause
try_write_output_uncaught(f, key, value, io) ==
    LET r == _write_output(f, key, value, io)
    IN  [fs |-> r.fs, outcome |-> r.outcome, exc |-> r.exc,
         warned |-> r.warned, propagates |-> r.outcome = "raised"]

\* try: _write_output(key, value) / except Exception as e: LOGGER.warning(...)
try_write_output(f, key, value, io) ==
    LET r == _write_output(f, key, value, io)
        caught == r.outcome = "raised" /\ IsException(r.exc)
    IN  [fs |-> r.fs, outcome |-> r.outcome, exc |-> r.exc,
         warned |-> r.warned + (IF caught THEN 1 ELSE 0),
         propagates |-> r.outcome = "raised" /\ ~caught]

\* whether the object has a method run: an entity of the SDK has, a str has not
HasRun(v) == v.kind = "entity"

Init ==
    /\ pc = "start"
    /\ args \in Calls
    /\ function = args.function
    /\ workflow = args.workflow
    /\ action = args.action
    /\ run = NoRun
    /\ observed = <<>>
    /\ sleeps = 0
    /\ outputs = <<>>
    /\ outputsCalled = FALSE
    /\ results = <<>>
    /\ idx = 1
    /\ attempts = <<>>
    /\ warnings = 0
    /\ fs \in InitialFs
    /\ fs0 = fs
    /\ exitCode = -1
    /\ raised = "none"
    /\ wcall = NoCall

\* the process ends with an uncaught exception or exit(1)
Fail(exc) ==
    /\ pc' = "exited"
    /\ exitCode' = 1
    /\ raised' = exc

\* "Executing function " + function + " task " + action with action None
FunctionWithoutAction ==
    /\ pc = "start"
    /\ function # None
    /\ action = None
    /\ Fail("TypeError")
    /\ UNCHANGED <<args, function, workflow, action, run, observed, sleeps, outputs,
                   outputsCalled, results, idx, attempts, warnings, fs, fs0, wcall>>

\* project.get_function raises: the function is not found
FunctionNotFound ==
    /\ pc = "start"
    /\ function # None
    /\ action # None
    /\ Fail("EntityError")
    /\ UNCHANGED <<args, function, workflow, action, run, observed, sleeps, outputs,
                   outputsCalled, results, idx, attempts, warnings, fs, fs0, wcall>>

\* function = project.get_function(...); run = function.run(action, **exec_kwargs)
FunctionRun ==
    /\ pc = "start"
    /\ function # None
    /\ action # None
    /\ function' = EntityRef("function", function.name, args.function_id)
    /\ IF HasRun(function')
       THEN /\ \E id \in RunIds, state \in States :
                 /\ run' = [id |-> id, state |-> state, entity |-> function',
                            action |-> action]
                 /\ observed' = <<state>>
            /\ pc' = "wait"
            /\ UNCHANGED <<exitCode, raised>>
       ELSE /\ Fail("AttributeError")
            /\ UNCHANGED <<run, observed>>
    /\ UNCHANGED <<args, workflow, action, sleeps, outputs, outputsCalled, results,
                   idx, attempts, warnings, fs, fs0, wcall>>

\* project.get_workflow raises: the workflow is not found
WorkflowNotFound ==
    /\ pc = "start"
    /\ function = None
    /\ workflow # None
    /\ action' = IF action = None THEN Str("pipeline") ELSE action
    /\ Fail("EntityError")
    /\ UNCHANGED <<args, function, workflow, run, observed, sleeps, outputs,
                   outputsCalled, results, idx, attempts, warnings, fs, fs0, wcall>>

\* function = project.get_workflow(...); run = workflow.run(action, **exec_kwargs)
\* The resolved entity is bound to `function`; run is called on `workflow`.
WorkflowRun ==
    /\ pc = "start"
    /\ function = None
    /\ workflow # None
    /\ action' = IF action = None THEN Str("pipeline") ELSE action
    /\ function' = EntityRef("workflow", workflow.name, args.workflow_id)
    /\ IF HasRun(workflow)
       THEN /\ \E id \in RunIds, state \in States :
                 /\ run' = [id |-> id, state |-> state, entity |-> workflow,
                            action |-> action']
                 /\ observed' = <<state>>
            /\ pc' = "wait"
            /\ UNCHANGED <<exitCode, raised>>
       ELSE /\ Fail("AttributeError")
            /\ UNCHANGED <<run, observed>>
    /\ UNCHANGED <<args, workflow, sleeps, outputs, outputsCalled, results,
                   idx, attempts, warnings, fs, fs0, wcall>>

\* neither function nor workflow: exit(1)
NoEntity ==
    /\ pc = "start"
    /\ function = None
    /\ workflow = None
    /\ Fail("SystemExit")
    /\ UNCHANGED <<args, function, workflow, action, run, observed, sleeps, outputs,
                   outputsCalled, results, idx, attempts, warnings, fs, fs0, wcall>>

\* the run_id export sits inside the success branch
LoopTest_run_id_on_success ==
    /\ pc = "wait"
    /\ pc' = IF ~_is_finished(run.state) THEN "sleep"
             ELSE IF _is_complete(run.state) THEN "write_run_id"
             ELSE "check_complete"
    /\ UNCHANGED <<args, function, workflow, action, run, observed, sleeps, outputs,
                   outputsCalled, results, idx, attempts, warnings, fs, fs0,
                   exitCode, raised, wcall>>

\* while not _is_finished(run.status.state)
LoopTest ==
    /\ pc = "wait"
    /\ pc' = IF _is_finished(run.state) THEN "write_run_id" ELSE "sleep"
    /\ UNCHANGED <<args, function, workflow, action, run, observed, sleeps, outputs,
                   outputsCalled, results, idx, attempts, warnings, fs, fs0,
                   exitCode, raised, wcall>>

\* time.sleep(5)
Sleep ==
    /\ pc = "sleep"
    /\ Len(observed) < MaxObserved
    /\ sleeps' = sleeps + 1
    /\ pc' = "refresh"
    /\ UNCHANGED <<args, function, workflow, action, run, observed, outputs,
                   outputsCalled, results, idx, attempts, warnings, fs, fs0,
                   exitCode, raised, wcall>>

\* run = run.refresh()
Refresh ==
    /\ pc = "refresh"
    /\ \E state \in States :
         /\ run' = [run EXCEPT !.state = state]
         /\ observed' = Append(observed, state)
    /\ pc' = "wait"
    /\ UNCHANGED <<args, function, workflow, action, sleeps, outputs,
                   outputsCalled, results, idx, attempts, warnings, fs, fs0,
                   exitCode, raised, wcall>>

\* one guarded call of the writer from execute_step
Export(key, value, next) ==
    \E io \in Injected :
        LET r == try_write_output(fs, key, value, io)
        IN  /\ fs' = r.fs
            /\ attempts' = Append(attempts, [key |-> key, value |-> value,
                                             outcome |-> r.outcome, exc |-> r.exc])
            /\ warnings' = warnings + r.warned
            /\ IF r.propagates
               THEN Fail(r.exc)
               ELSE pc' = next /\ UNCHANGED <<exitCode, raised>>

\* the state is exported in place of the id
WriteRunId_state ==
    /\ pc = "write_run_id"
    /\ Export(RUN_ID, run.state, "check_complete")
    /\ UNCHANGED <<args, function, workflow, action, run, observed, sleeps, outputs,
                   outputsCalled, results, idx, fs0, wcall>>

\* try: _write_output("run_id", run.id)
WriteRunId ==
    /\ pc = "write_run_id"
    /\ Export(RUN_ID, run.id, "check_complete")
    /\ UNCHANGED <<args, function, workflow, action, run, observed, sleeps, outputs,
                   outputsCalled, results, idx, fs0, wcall>>

\* else: "Step failed: " + state; exit(1)
StepFailed ==
    /\ pc = "check_complete"
    /\ ~_is_complete(run.state)
    /\ Fail("SystemExit")
    /\ UNCHANGED <<args, function, workflow, action, run, observed, sleeps, outputs,
                   outputsCalled, results, idx, attempts, warnings, fs, fs0, wcall>>

\* the run is complete and has no attribute outputs: "Done."
CompleteWithoutOutputs ==
    /\ pc = "check_complete"
    /\ _is_complete(run.state)
    /\ pc' = "exited"
    /\ exitCode' = 0
    /\ UNCHANGED <<args, function, workflow, action, run, observed, sleeps, outputs,
                   outputsCalled, results, idx, attempts, warnings, fs, fs0,
                   raised, wcall>>

\* the run is complete: results = {}; for prop, val in run.outputs().items(): ...
ProcessEntities ==
    /\ pc = "check_complete"
    /\ _is_complete(run.state)
    /\ \E o \in OutputMaps :
         LET r == process_entities(o, <<>>)
         IN  /\ outputs' = o
             /\ outputsCalled' = TRUE
             /\ IF r.exc = "none"
                THEN /\ results' = r.results
                     /\ idx' = 1
                     /\ pc' = "write_entities"
                     /\ UNCHANGED <<exitCode, raised>>
                ELSE /\ Fail(r.exc)
                     /\ UNCHANGED <<results, idx>>
    /\ UNCHANGED <<args, function, workflow, action, run, observed, sleeps,
                   attempts, warnings, fs, fs0, wcall>>

\* for key, value in results.items(): try: _write_output(key, value)
WriteEntity ==
    /\ pc = "write_entities"
    /\ idx <= Len(results)
    /\ Export(results[idx].key, results[idx].value, "write_entities")
    /\ idx' = idx + 1
    /\ UNCHANGED <<args, function, workflow, action, run, observed, sleeps, outputs,
                   outputsCalled, results, fs0, wcall>>

\* "Done.": execute_step returns and the process ends
Done ==
    /\ pc = "write_entities"
    /\ idx > Len(results)
    /\ pc' = "exited"
    /\ exitCode' = 0
    /\ UNCHANGED <<args, function, workflow, action, run, observed, sleeps, outputs,
                   outputsCalled, results, idx, attempts, warnings, fs, fs0,
                   raised, wcall>>

Next ==
    \/ FunctionWithoutAction
    \/ FunctionNotFound
    \/ FunctionRun
    \/ WorkflowNotFound
    \/ WorkflowRun
    \/ NoEntity
    \/ LoopTest
    \/ Sleep
    \/ Refresh
    \/ WriteRunId
    \/ StepFailed
    \/ CompleteWithoutOutputs
    \/ ProcessEntities
    \/ WriteEntity
    \/ Done

Spec == Init /\ [][Next]_vars

\* the process is single-threaded and never stops by itself inside the loop:
\* the loop test, the sleep and the refresh are taken whenever they can be
FairSpec ==
    Spec /\ WF_vars(LoopTest) /\ WF_vars(Sleep) /\ WF_vars(Refresh)

----------------------------------------------------------------------------
(* Properties *)

BaseId == <<"tmp">>

RunIdPath == <<"tmp", "run_id">>

\* the file that base/key names
Resolved(key) == FileId(abspath(join(KFP_ARTIFACTS_DIR, key)))

\* the resolved path lies strictly below base
IsDescendant(key) ==
    LET r == Resolved(key)
    IN  Len(r) > Len(BaseId) /\ SubSeq(r, 1, Len(BaseId)) = BaseId

\* the key is relative and has no ".." segment
NoTraversal(key) == ~isabs(key) /\ \A i \in 1..Len(key) : key[i] # ".."

Terminal == {"COMPLETED", "ERROR", "STOPPED"}

InLoop == pc \in {"wait", "sleep", "refresh"}

LeftLoop == run # NoRun /\ ~InLoop

LastObserved == observed[Len(observed)]

IoErrors == {"OSError", "IsADirectoryError", "FileNotFoundError", "NotADirectoryError"}

\* C1: a key whose resolved path is not a descendant of base (outside it, or
\* base itself) makes _write_output change no file and return without raising.
C1_NonDescendantKeyIsIgnored ==
    (wcall # NoCall /\ ~IsDescendant(wcall.key))
        => (fs = wcall.before /\ wcall.outcome # "raised")

\* the Export Record the normaliser is specified to build: the three known
\* shapes are flattened, any other value is skipped
RECURSIVE ExportRecord(_)
ExportRecord(items) ==
    IF items = <<>> THEN <<>>
    ELSE (IF Head(items).val.shape \in {"str", "Entity", "dict"}
          THEN <<[key |-> target_output(Head(items).prop), value |-> Head(items).val.text]>>
          ELSE <<>>) \o ExportRecord(Tail(items))

\* C2: once run.outputs() of a COMPLETED run was read, results holds
\* "entity_" + p for every value of a known shape, values of any other shape
\* are skipped, and no exception ends the step.
C2_UnknownShapesAreSkipped ==
    outputsCalled
        => (raised = "none" /\ exitCode # 1 /\ results = ExportRecord(outputs))

\* C3: the process exits 0 whenever the run reached COMPLETED and the export
\* was attempted, exits 1 when no entity is given, the entity is not found,
\* the action is missing or the run ended ERROR or STOPPED, and never exits 0
\* after observing ERROR or STOPPED.
C3_ExitCode ==
    pc = "exited"
        => /\ (run # NoRun /\ LastObserved = "COMPLETED" /\ attempts # <<>>) => exitCode = 0
           /\ (args.function = None /\ args.workflow = None) => exitCode = 1
           /\ raised = "EntityError" => exitCode = 1
           /\ (args.function # None /\ args.action = None) => exitCode = 1
           /\ (run # NoRun /\ LastObserved \in {"ERROR", "STOPPED"}) => exitCode = 1
           /\ exitCode = 0
                => \A i \in 1..Len(observed) : observed[i] \notin {"ERROR", "STOPPED"}

\* C3 apart from the exceptions of the normaliser (C2): the same statement for
\* the executions in which process_entities did not raise
C3_ExitCodeUnlessNormaliserRaises ==
    raised \notin {"KeyError", "TypeError"} => C3_ExitCode

\* C4: with a workflow and no function, once the workflow is found a run of the
\* resolved workflow entity exists, with the given action or "pipeline", and
\* the wait loop was entered on it.
C4_WorkflowBranchRuns ==
    (pc # "start" /\ args.function = None /\ args.workflow # None
        /\ raised # "EntityError")
        => /\ run # NoRun
           /\ run.entity = EntityRef("workflow", args.workflow.name, args.workflow_id)
           /\ run.action = (IF args.action = None THEN Str("pipeline") ELSE args.action)
           /\ observed # <<>>

C5_LoopInvariant ==
    /\ InLoop /\ pc # "wait"
         => \A i \in 1..Len(observed) : observed[i] \notin Terminal
    /\ InLoop
         => \A i \in 1..(Len(observed) - 1) : observed[i] \notin Terminal
    /\ LeftLoop
         => /\ LastObserved \in Terminal
            /\ \A i \in 1..(Len(observed) - 1) : observed[i] \notin Terminal
            /\ sleeps = Len(observed) - 1
            /\ run.state = LastObserved
    /\ run # NoRun => run.state = LastObserved /\ sleeps <= Len(observed)

\* C5: the wait loop is left only on COMPLETED, ERROR or STOPPED; when the
\* first terminal state is the n-th state read, exactly n states were read
\* with n - 1 sleeps and that state is the one acted on; and once a terminal
\* state has been read the loop ends.
C5_WaitLoop ==
    /\ []C5_LoopInvariant
    /\ (InLoop /\ run.state \in Terminal) ~> LeftLoop

C5_Witness ==
    /\ pc = "write_run_id"
    /\ observed = <<"RUNNING", "RUNNING", "COMPLETED">>
    /\ sleeps = 2

HoldsRunId(f) == IsFile(f, RunIdPath) /\ Content(f, RunIdPath) = run.id

\* C6 as stated: from the moment the run handle exists, also while waiting, the
\* file run_id holds the run's id.
C6_RunIdFileOnceRunExists ==
    run # NoRun => HoldsRunId(fs)

\* C6 amended: nothing is written while the step waits; once the run_id write
\* made after the wait loop has returned without error the file run_id
\* exists, and it holds the run's id as long as no later key resolves to it.
C6_RunIdFileAfterWait ==
    /\ (InLoop \/ pc = "write_run_id") => fs = fs0
    /\ (attempts # <<>> /\ attempts[1].outcome = "written")
         => /\ IsFile(fs, RunIdPath)
            /\ (\A i \in 2..Len(attempts) : Resolved(attempts[i].key) # RunIdPath)
                 => HoldsRunId(fs)

C6_Witness ==
    /\ pc = "check_complete"
    /\ attempts[1].outcome = "written"
    /\ IsFile(fs0, RunIdPath) /\ Content(fs0, RunIdPath) = "old"
    /\ HoldsRunId(fs)

NormaliserRaises(items) ==
    \E i \in 1..Len(items) : items[i].val.shape \notin {"str", "Entity", "dict"}

Failed(i) == attempts[i].outcome # "written"

C9_RunIdAttemptedOnceAndFirst ==
    /\ (InLoop \/ pc \in {"start", "write_run_id"}) => attempts = <<>>
    /\ (LeftLoop /\ pc # "write_run_id")
         => /\ attempts # <<>>
            /\ attempts[1].key = RUN_ID
            /\ attempts[1].value = run.id
            /\ \A i \in 2..Len(attempts) : attempts[i].key # RUN_ID

C9_Witness ==
    /\ pc = "exited"
    /\ Len(attempts) = 2
    /\ attempts[1].key = RUN_ID
    /\ attempts[2].key = <<"entity_x">>

OtherFiles(f) == {e \in f.files : e.path # RunIdPath}

\* C10: a key "entity_" + p is handed to the writer only when the terminal
\* state is COMPLETED; after ERROR or STOPPED run.outputs() is not called, no
\* file but run_id changes and the process exits 1.
C10_EntitiesOnlyWhenCompleted ==
    /\ (\E i \in 1..Len(attempts) : attempts[i].key # RUN_ID)
         => LastObserved = "COMPLETED"
    /\ outputsCalled => LastObserved = "COMPLETED"
    /\ (LeftLoop /\ LastObserved \in {"ERROR", "STOPPED"})
         => /\ OtherFiles(fs) = OtherFiles(fs0)
            /\ pc = "exited" => exitCode = 1

C10_Witness ==
    /\ pc = "exited"
    /\ run # NoRun
    /\ LastObserved = "STOPPED"
    /\ exitCode = 1
    /\ attempts[1].outcome = "written"
    /\ ~outputsCalled

====
